---- MODULE Spec2Model ----
(***************************************************************************)
(* Hotel listing service of drivent3: hotel-repository (findHotels,        *)
(* findRoomsByHotelId) and hotels-service (getHotels, getHotelsWithRooms). *)
(* Every await of the service is an interleaving point: a call is issued,  *)
(* then each of its lookups is answered (or rejected) by the data store.   *)
(***************************************************************************)
EXTENDS Integers, Sequences, FiniteSets, TLC

\* ---------------------------------------------------------------- bounds
MaxUser == 2
MaxHotel == 2
MaxRoom == 2
MaxCalls == 2

Users == 1..MaxUser
HotelIds == 1..MaxHotel
RoomIds == 1..MaxRoom

\* ---------------------------------------------------------------- data model
TicketStatus == {"RESERVED", "PAID"}

TicketTypes == [isRemote : BOOLEAN, includesHotel : BOOLEAN]

\* Enrollment identifiers are the store's own keys, not user identifiers.
EnrollmentIdOf(userId) == MaxUser + 1 - userId

EnrollmentRow(userId) == [id |-> EnrollmentIdOf(userId), userId |-> userId]

TicketRow(enrollmentId, status, ticketType) ==
    [enrollmentId |-> enrollmentId, status |-> status, TicketType |-> ticketType]

HotelRow(h) ==
    [id |-> h, name |-> "Cheval Blanc St-Tropez", image |-> "cheval-blanc-st-tropez.jpg",
     createdAt |-> 0, updatedAt |-> 0]

RoomRow(r, h) ==
    [id |-> r, name |-> "301", capacity |-> 4, hotelId |-> h,
     createdAt |-> 0, updatedAt |-> 0]

\* ---------------------------------------------------------------- errors
notFoundError == [name |-> "NotFoundError"]

cannotListHotelsError == [name |-> "CannotListHotelsError", message |-> "Can not list hotels!"]

\* A failure of the persistence client itself (connectivity, malformed query).
storeFailure == [name |-> "PrismaClientError"]

\* A field read on null, which the JavaScript runtime turns into a TypeError.
typeError == [name |-> "TypeError"]

NoError == [name |-> "none"]

\* ---------------------------------------------------------------- state
VARIABLES
    enrollmentTable,    \* rows of Enrollment
    ticketTable,        \* rows of Ticket, each with its TicketType included
    hotelTable,         \* rows of Hotel
    roomTable,          \* rows of Room
    calls               \* one record per service call in progress

store == <<enrollmentTable, ticketTable, hotelTable, roomTable>>
vars == <<enrollmentTable, ticketTable, hotelTable, roomTable, calls>>

\* ---------------------------------------------------------------- repositories
\* All orders in which a query may hand back a set of rows.
RECURSIVE Orderings(_)
Orderings(rows) ==
    IF rows = {} THEN {<<>>}
    ELSE UNION {{<<r>> \o s : s \in Orderings(rows \ {r})} : r \in rows}

Elements(seq) == {seq[i] : i \in 1..Len(seq)}

\* enrollment-repository: the enrollment of a user, or absent (the empty set).
findWithAddressByUserId(userId) == {e \in enrollmentTable : e.userId = userId}

\* ticket-repository: the ticket of an enrollment, or absent (the empty set).
findTicketByEnrollmentId(enrollmentId) == {t \in ticketTable : t.enrollmentId = enrollmentId}

\* Variant: the hotel query joined with the rooms, dropping hotels without one.
findHotels_onlyWithRooms == {h \in hotelTable : \E r \in roomTable : r.hotelId = h.id}

\* prisma.hotel.findMany(): every hotel row, scalar fields only.
findHotels == hotelTable

\* Variant: the room query without its where clause.
findRoomsByHotelId_noWhere(hotelId) == roomTable

\* prisma.room.findMany({ where: { hotelId } })
findRoomsByHotelId(hotelId) == {r \in roomTable : r.hotelId = hotelId}

\* ---------------------------------------------------------------- calls
IdleCall ==
    [pc |-> "idle", op |-> "none", userId |-> 0, hotelId |-> 0,
     enrollment |-> {}, ticket |-> {}, rejected |-> NoError,
     outcomes |-> <<>>, log |-> <<>>]

Lookup(kind, key) == [lookup |-> kind, key |-> key]

Thrown(error) == [kind |-> "throw", error |-> error, value |-> <<>>]

Returned(value) == [kind |-> "return", error |-> NoError, value |-> value]

\* The call leaves its function: the promise settles and nothing else runs.
Exit(call, outcome) ==
    [call EXCEPT !.pc = "done", !.outcomes = Append(@, outcome)]

\* The call issues one more lookup and awaits it.
Await(call, pc, kind, key) ==
    [call EXCEPT !.pc = pc, !.log = Append(@, Lookup(kind, key))]

\* The lookup the call is awaiting.
Pending(call) == call.log[Len(call.log)]

\* The one row of a lookup that found something.
TheRow(found) == CHOOSE row \in found : TRUE

\* ---------------------------------------------------------------- stores
\* Enrollments of some users, at most one ticket per enrollment.
InitEnrollmentsAndTickets ==
    \E enrolled \in SUBSET Users :
      /\ enrollmentTable = {EnrollmentRow(u) : u \in enrolled}
      /\ \E ticketed \in SUBSET enrolled :
           \E status \in [ticketed -> TicketStatus], type \in [ticketed -> TicketTypes] :
             ticketTable = {TicketRow(EnrollmentIdOf(u), status[u], type[u]) : u \in ticketed}

\* Some hotels; every room belongs to a hotel that exists.
InitHotelsAndRooms ==
    \E hs \in SUBSET HotelIds :
      /\ hotelTable = {HotelRow(h) : h \in hs}
      /\ IF hs = {}
         THEN roomTable = {}
         ELSE \E owner \in [RoomIds -> hs] :
                roomTable = {RoomRow(r, owner[r]) : r \in RoomIds}

Init ==
    /\ InitEnrollmentsAndTickets
    /\ InitHotelsAndRooms
    /\ calls = [c \in {1} |-> IdleCall]

\* ---------------------------------------------------------------- getHotels
\* line 8: the enrollment lookup is issued.
getHotels_call(c, userId) ==
    /\ calls[c].pc = "idle"
    /\ calls' = [calls EXCEPT ![c] =
            Await([@ EXCEPT !.op = "getHotels", !.userId = userId],
                  "enrollment", "enrollment", userId)]
    /\ UNCHANGED store

\* Variant: the ticket lookup keyed by the user instead of the enrollment.
getHotels_enrollment_keyedByUser(c) ==
    /\ calls[c].pc = "enrollment"
    /\ calls[c].op = "getHotels"
    /\ LET enrollment == findWithAddressByUserId(Pending(calls[c]).key)
       IN calls' = [calls EXCEPT ![c] =
            IF enrollment = {}
            THEN Exit(@, Thrown(notFoundError))
            ELSE Await([@ EXCEPT !.enrollment = enrollment],
                       "ticket", "ticket", @.userId)]
    /\ UNCHANGED store

\* lines 8-12: the enrollment lookup answers; absent throws, present issues
\* the ticket lookup for enrollment.id.
getHotels_enrollment(c) ==
    /\ calls[c].pc = "enrollment"
    /\ calls[c].op = "getHotels"
    /\ LET enrollment == findWithAddressByUserId(Pending(calls[c]).key)
       IN calls' = [calls EXCEPT ![c] =
            IF enrollment = {}
            THEN Exit(@, Thrown(notFoundError))
            ELSE Await([@ EXCEPT !.enrollment = enrollment],
                       "ticket", "ticket", TheRow(enrollment).id)]
    /\ UNCHANGED store

\* Variant: the check without its isRemote part.
getHotels_ticket_noRemoteCheck(c) ==
    /\ calls[c].pc = "ticket"
    /\ calls[c].op = "getHotels"
    /\ LET ticket == findTicketByEnrollmentId(Pending(calls[c]).key)
       IN calls' = [calls EXCEPT ![c] =
            IF \/ ticket = {}
               \/ TheRow(ticket).status = "RESERVED"
               \/ ~TheRow(ticket).TicketType.includesHotel
            THEN Exit([@ EXCEPT !.ticket = ticket], Thrown(cannotListHotelsError))
            ELSE Await([@ EXCEPT !.ticket = ticket], "query", "hotels", 0)]
    /\ UNCHANGED store

\* Variant: the enrollment kept in one variable that every call writes, so
\* the ticket is looked up for whichever call wrote it last.
getHotels_ticket_sharedEnrollment(c) ==
    /\ calls[c].pc = "ticket"
    /\ calls[c].op = "getHotels"
    /\ \E d \in DOMAIN calls :
         /\ calls[d].enrollment # {}
         /\ LET ticket == findTicketByEnrollmentId(TheRow(calls[d].enrollment).id)
            IN calls' = [calls EXCEPT ![c] =
                 IF \/ ticket = {}
                    \/ TheRow(ticket).status = "RESERVED"
                    \/ TheRow(ticket).TicketType.isRemote
                    \/ ~TheRow(ticket).TicketType.includesHotel
                 THEN Exit([@ EXCEPT !.ticket = ticket], Thrown(cannotListHotelsError))
                 ELSE Await([@ EXCEPT !.ticket = ticket], "query", "hotels", 0)]
    /\ UNCHANGED store

\* lines 12-16: the ticket lookup answers; the four-part check, then the
\* hotel query is issued.
getHotels_ticket(c) ==
    /\ calls[c].pc = "ticket"
    /\ calls[c].op = "getHotels"
    /\ LET ticket == findTicketByEnrollmentId(Pending(calls[c]).key)
       IN calls' = [calls EXCEPT ![c] =
            IF \/ ticket = {}
               \/ TheRow(ticket).status = "RESERVED"
               \/ TheRow(ticket).TicketType.isRemote
               \/ ~TheRow(ticket).TicketType.includesHotel
            THEN Exit([@ EXCEPT !.ticket = ticket], Thrown(cannotListHotelsError))
            ELSE Await([@ EXCEPT !.ticket = ticket], "query", "hotels", 0)]
    /\ UNCHANGED store

\* lines 16-17: the hotel query answers and its rows are returned as they are.
getHotels_hotels(c) ==
    /\ calls[c].pc = "query"
    /\ calls[c].op = "getHotels"
    /\ \E hotels \in Orderings(findHotels) :
         calls' = [calls EXCEPT ![c] = Exit(@, Returned(hotels))]
    /\ UNCHANGED store

\* ---------------------------------------------------------------- getHotelsWithRooms
\* line 20: the enrollment lookup is issued.
getHotelsWithRooms_call(c, userId, hotelId) ==
    /\ calls[c].pc = "idle"
    /\ calls' = [calls EXCEPT ![c] =
            Await([@ EXCEPT !.op = "getHotelsWithRooms", !.userId = userId,
                            !.hotelId = hotelId],
                  "enrollment", "enrollment", userId)]
    /\ UNCHANGED store

\* Variant: the missing enrollment reported with the other error.
getHotelsWithRooms_enrollment_wrongError(c) ==
    /\ calls[c].pc = "enrollment"
    /\ calls[c].op = "getHotelsWithRooms"
    /\ LET enrollment == findWithAddressByUserId(Pending(calls[c]).key)
       IN calls' = [calls EXCEPT ![c] =
            IF enrollment = {}
            THEN Exit(@, Thrown(cannotListHotelsError))
            ELSE Await([@ EXCEPT !.enrollment = enrollment],
                       "ticket", "ticket", TheRow(enrollment).id)]
    /\ UNCHANGED store

\* lines 20-24: as getHotels.
getHotelsWithRooms_enrollment(c) ==
    /\ calls[c].pc = "enrollment"
    /\ calls[c].op = "getHotelsWithRooms"
    /\ LET enrollment == findWithAddressByUserId(Pending(calls[c]).key)
       IN calls' = [calls EXCEPT ![c] =
            IF enrollment = {}
            THEN Exit(@, Thrown(notFoundError))
            ELSE Await([@ EXCEPT !.enrollment = enrollment],
                       "ticket", "ticket", TheRow(enrollment).id)]
    /\ UNCHANGED store

\* Variant: ticket.status read before the ticket is tested for null.
getHotelsWithRooms_ticket_statusFirst(c) ==
    /\ calls[c].pc = "ticket"
    /\ calls[c].op = "getHotelsWithRooms"
    /\ LET ticket == findTicketByEnrollmentId(Pending(calls[c]).key)
       IN calls' = [calls EXCEPT ![c] =
            IF ticket = {}
            THEN Exit([@ EXCEPT !.ticket = ticket], Thrown(typeError))
            ELSE IF \/ TheRow(ticket).status = "RESERVED"
                    \/ TheRow(ticket).TicketType.isRemote
                    \/ ~TheRow(ticket).TicketType.includesHotel
            THEN Exit([@ EXCEPT !.ticket = ticket], Thrown(cannotListHotelsError))
            ELSE Await([@ EXCEPT !.ticket = ticket], "query", "rooms", @.hotelId)]
    /\ UNCHANGED store

\* lines 24-28: the same four-part check, then the room query is issued for
\* the hotelId argument.
getHotelsWithRooms_ticket(c) ==
    /\ calls[c].pc = "ticket"
    /\ calls[c].op = "getHotelsWithRooms"
    /\ LET ticket == findTicketByEnrollmentId(Pending(calls[c]).key)
       IN calls' = [calls EXCEPT ![c] =
            IF \/ ticket = {}
               \/ TheRow(ticket).status = "RESERVED"
               \/ TheRow(ticket).TicketType.isRemote
               \/ ~TheRow(ticket).TicketType.includesHotel
            THEN Exit([@ EXCEPT !.ticket = ticket], Thrown(cannotListHotelsError))
            ELSE Await([@ EXCEPT !.ticket = ticket], "query", "rooms", @.hotelId)]
    /\ UNCHANGED store

\* Variant: the rooms taken out of the table as they are read.
getHotelsWithRooms_rooms_deleting(c) ==
    /\ calls[c].pc = "query"
    /\ calls[c].op = "getHotelsWithRooms"
    /\ \E hotels \in Orderings(findRoomsByHotelId(Pending(calls[c]).key)) :
         /\ calls' = [calls EXCEPT ![c] = Exit(@, Returned(hotels))]
         /\ roomTable' = roomTable \ Elements(hotels)
    /\ UNCHANGED <<enrollmentTable, ticketTable, hotelTable>>

\* lines 28-29: the room query answers and its rows are returned as they are.
getHotelsWithRooms_rooms(c) ==
    /\ calls[c].pc = "query"
    /\ calls[c].op = "getHotelsWithRooms"
    /\ \E hotels \in Orderings(findRoomsByHotelId(Pending(calls[c]).key)) :
         calls' = [calls EXCEPT ![c] = Exit(@, Returned(hotels))]
    /\ UNCHANGED store

\* ---------------------------------------------------------------- store failures
\* Variant: the rejection caught and reported as a missing enrollment.
lookupRejected_caught(c) ==
    /\ calls[c].pc \in {"enrollment", "ticket", "query"}
    /\ calls' = [calls EXCEPT ![c] =
            Exit([@ EXCEPT !.rejected = storeFailure], Thrown(notFoundError))]
    /\ UNCHANGED store

\* An awaited lookup rejects. Neither function has a try/catch, so the
\* rejection leaves the function as the store raised it.
lookupRejected(c) ==
    /\ calls[c].pc \in {"enrollment", "ticket", "query"}
    /\ calls' = [calls EXCEPT ![c] =
            Exit([@ EXCEPT !.rejected = storeFailure], Thrown(storeFailure))]
    /\ UNCHANGED store

\* ---------------------------------------------------------------- specifications
\* One step of a call whose lookups answer.
Step(c) ==
    \/ \E userId \in Users : getHotels_call(c, userId)
    \/ getHotels_enrollment(c)
    \/ getHotels_ticket(c)
    \/ getHotels_hotels(c)
    \/ \E userId \in Users, hotelId \in HotelIds : getHotelsWithRooms_call(c, userId, hotelId)
    \/ getHotelsWithRooms_enrollment(c)
    \/ getHotelsWithRooms_ticket(c)
    \/ getHotelsWithRooms_rooms(c)

\* A pending lookup answers.
Answer(c) ==
    \/ getHotels_enrollment(c)
    \/ getHotels_ticket(c)
    \/ getHotels_hotels(c)
    \/ getHotelsWithRooms_enrollment(c)
    \/ getHotelsWithRooms_ticket(c)
    \/ getHotelsWithRooms_rooms(c)

Next == \E c \in DOMAIN calls : Step(c)

\* One call over any store, the data store answering every lookup.
Spec == Init /\ [][Next]_vars

NextFail == \E c \in DOMAIN calls : Step(c) \/ lookupRejected(c)

\* One call over any store, the data store free to fail any lookup.
SpecFail == Init /\ [][NextFail]_vars

\* Calls in flight together, over a store in which the users differ in what
\* they may list: user u is, in turn, eligible, holder of a remote ticket,
\* not enrolled, or enrolled without a ticket.
UserKind(u, k) == (u + k) % 4

InitRotated(rotations) ==
    /\ \E k \in rotations :
         /\ enrollmentTable = {EnrollmentRow(u) : u \in {x \in Users : UserKind(x, k) # 2}}
         /\ ticketTable =
              {TicketRow(EnrollmentIdOf(u), "PAID",
                         [isRemote |-> UserKind(u, k) = 1, includesHotel |-> UserKind(u, k) = 0])
                 : u \in {x \in Users : UserKind(x, k) \in {0, 1}}}
    /\ hotelTable = {HotelRow(h) : h \in HotelIds}
    /\ roomTable = {RoomRow(r, ((r - 1) % MaxHotel) + 1) : r \in RoomIds}
    /\ calls = [c \in 1..MaxCalls |-> IdleCall]

InitConc == InitRotated(0..3)

SpecConc == InitConc /\ [][Next]_vars

\* Concurrent calls whose pending lookups are answered in the end: an await
\* resumes once the store has answered.
InitFair == InitRotated({0, 2})

FairSpec == InitFair /\ [][Next]_vars /\ \A c \in 1..MaxCalls : WF_vars(Answer(c))

\* ---------------------------------------------------------------- vocabulary of the claims
EnrollmentsOf(userId) == {e \in enrollmentTable : e.userId = userId}

TicketsOf(userId) ==
    {t \in ticketTable : \E e \in EnrollmentsOf(userId) : t.enrollmentId = e.id}

Eligible(userId) ==
    \E t \in TicketsOf(userId) :
        /\ t.status # "RESERVED"
        /\ ~t.TicketType.isRemote
        /\ t.TicketType.includesHotel

Done(c) == calls[c].pc = "done"

HotelFields == {"id", "name", "image", "createdAt", "updatedAt"}

\* ---------------------------------------------------------------- C1
\* C1: a call for a user without an enrollment ends in NotFoundError, for
\* either operation, every hotelId and every content of the other tables.
C1_NoEnrollmentIsNotFound ==
    \A c \in DOMAIN calls :
        (Done(c) /\ EnrollmentsOf(calls[c].userId) = {})
            => calls[c].outcomes = <<Thrown(notFoundError)>>

C1_Witness ==
    \E c \in DOMAIN calls :
        /\ Done(c)
        /\ calls[c].op = "getHotelsWithRooms"
        /\ EnrollmentsOf(calls[c].userId) = {}
        /\ ticketTable # {}
        /\ findRoomsByHotelId(calls[c].hotelId) # {}
        /\ calls[c].outcomes = <<Thrown(notFoundError)>>

\* ---------------------------------------------------------------- C2
\* C2: a call for an enrolled user whose ticket is absent, RESERVED, remote
\* or without hotel ends in CannotListHotelsError and nothing else, and
\* carries no hotel or room.
C2_IneligibleCannotList ==
    \A c \in DOMAIN calls :
        (Done(c) /\ EnrollmentsOf(calls[c].userId) # {} /\ ~Eligible(calls[c].userId))
            => /\ calls[c].outcomes = <<Thrown(cannotListHotelsError)>>
               /\ calls[c].outcomes[1].value = <<>>

C2_Witness ==
    \E c \in DOMAIN calls :
        /\ Done(c)
        /\ EnrollmentsOf(calls[c].userId) # {}
        /\ TicketsOf(calls[c].userId) = {}
        /\ hotelTable # {}
        /\ calls[c].outcomes = <<Thrown(cannotListHotelsError)>>

\* ---------------------------------------------------------------- C3
\* C3: getHotels for an eligible user returns every Hotel row of the store
\* once, each with the hotel's own fields only, and nothing when there is
\* no hotel.
C3_GetHotelsReturnsAllHotels ==
    \A c \in DOMAIN calls :
        (Done(c) /\ calls[c].op = "getHotels" /\ Eligible(calls[c].userId))
            => /\ Len(calls[c].outcomes) = 1
               /\ calls[c].outcomes[1].kind = "return"
               /\ Elements(calls[c].outcomes[1].value) = hotelTable
               /\ Len(calls[c].outcomes[1].value) = Cardinality(hotelTable)
               /\ \A row \in Elements(calls[c].outcomes[1].value) : DOMAIN row = HotelFields

C3_Witness ==
    \E c \in DOMAIN calls :
        /\ Done(c)
        /\ calls[c].op = "getHotels"
        /\ Eligible(calls[c].userId)
        /\ Cardinality(hotelTable) = 2
        /\ \E h \in hotelTable : findRoomsByHotelId(h.id) = {}
        /\ Len(calls[c].outcomes[1].value) = 2

C5_HotelWithItsRooms ==
    \A c \in DOMAIN calls :
        (/\ Done(c)
         /\ calls[c].op = "getHotelsWithRooms"
         /\ Eligible(calls[c].userId)
         /\ \E h \in hotelTable : h.id = calls[c].hotelId)
            => /\ Len(calls[c].outcomes) = 1
               /\ calls[c].outcomes[1].kind = "return"
               /\ Len(calls[c].outcomes[1].value) = 1
               /\ LET row == calls[c].outcomes[1].value[1]
                  IN /\ DOMAIN row = HotelFields \cup {"Rooms"}
                     /\ row.id = calls[c].hotelId
                     /\ Elements(row.Rooms) = {r \in roomTable : r.hotelId = calls[c].hotelId}

\* ---------------------------------------------------------------- C6
\* C6: no step of any call changes a table of the store.
C6_StoreIsOnlyRead == [][store' = store]_vars

C6_Witness ==
    \E c \in DOMAIN calls :
        /\ Done(c)
        /\ calls[c].outcomes[1].kind = "return"
        /\ calls[c].outcomes[1].value # <<>>
        /\ enrollmentTable # {} /\ ticketTable # {} /\ hotelTable # {} /\ roomTable # {}

\* ---------------------------------------------------------------- C7
\* C7: a lookup the store fails ends the call with the store's own failure:
\* not another error, not a result, and no lookup is issued again.
C7_StoreFailurePropagates ==
    \A c \in DOMAIN calls :
        calls[c].rejected # NoError
            => /\ Done(c)
               /\ calls[c].outcomes = <<Thrown(calls[c].rejected)>>
               /\ \A i, j \in 1..Len(calls[c].log) :
                    calls[c].log[i].lookup = calls[c].log[j].lookup => i = j

C7_Witness ==
    \E c \in DOMAIN calls :
        /\ calls[c].rejected = storeFailure
        /\ Len(calls[c].log) = 2
        /\ calls[c].log[2].lookup = "ticket"
        /\ Done(c)

\* ---------------------------------------------------------------- C8
\* C8: when every lookup answers, a call that started completes, with one
\* outcome: NotFoundError, CannotListHotelsError or a returned sequence.
C8_OneOutcomeOfThree ==
    \A c \in DOMAIN calls :
        /\ Len(calls[c].outcomes) <= 1
        /\ Done(c) <=> Len(calls[c].outcomes) = 1
        /\ \A i \in 1..Len(calls[c].outcomes) :
             \/ calls[c].outcomes[i].kind = "return"
             \/ /\ calls[c].outcomes[i].kind = "throw"
                /\ calls[c].outcomes[i].error \in {notFoundError, cannotListHotelsError}

C8_CompletesWithOneOfThree ==
    /\ []C8_OneOutcomeOfThree
    /\ \A c \in 1..MaxCalls : (calls[c].pc # "idle") ~> Done(c)

C8_Witness ==
    \E c \in DOMAIN calls :
        /\ Done(c)
        /\ calls[c].outcomes[1].kind = "throw"
        /\ calls[c].outcomes[1].error = cannotListHotelsError
        /\ TicketsOf(calls[c].userId) = {}

\* ---------------------------------------------------------------- C9
\* C9: a call issues the enrollment lookup for its userId, then, only for an
\* enrollment that was found, the ticket lookup for that enrollment's id,
\* then, only when the check passed, the hotel or room query; each once, and
\* none after the call left with an error.
C9_LookupOrder ==
    \A c \in DOMAIN calls :
        LET log == calls[c].log
        IN /\ Len(log) <= 3
           /\ Len(log) >= 1 => log[1] = Lookup("enrollment", calls[c].userId)
           /\ Len(log) >= 2 =>
                /\ calls[c].enrollment = EnrollmentsOf(calls[c].userId)
                /\ calls[c].enrollment # {}
                /\ \E e \in calls[c].enrollment : log[2] = Lookup("ticket", e.id)
           /\ Len(log) >= 3 =>
                /\ Eligible(calls[c].userId)
                /\ \/ calls[c].op = "getHotels" /\ log[3] = Lookup("hotels", 0)
                   \/ /\ calls[c].op = "getHotelsWithRooms"
                      /\ log[3] = Lookup("rooms", calls[c].hotelId)
           /\ \A i \in 1..Len(calls[c].outcomes) :
                /\ calls[c].outcomes[i].error = notFoundError => Len(log) = 1
                /\ calls[c].outcomes[i].error = cannotListHotelsError => Len(log) = 2
                /\ calls[c].outcomes[i].kind = "return" => Len(log) = 3

C9_Witness ==
    \E c \in DOMAIN calls :
        /\ Done(c)
        /\ calls[c].outcomes[1].kind = "return"
        /\ Len(calls[c].log) = 3
        /\ calls[c].log[2].key # calls[c].userId
        /\ ticketTable # {t \in ticketTable : t.enrollmentId = calls[c].log[2].key}

\* ---------------------------------------------------------------- C10
\* The outcomes a call has when it runs alone on the store.
AloneOutcomes(op, userId, hotelId) ==
    IF EnrollmentsOf(userId) = {} THEN {Thrown(notFoundError)}
    ELSE IF ~Eligible(userId) THEN {Thrown(cannotListHotelsError)}
    ELSE IF op = "getHotels" THEN {Returned(s) : s \in Orderings(hotelTable)}
    ELSE {Returned(s) : s \in Orderings({r \in roomTable : r.hotelId = hotelId})}

\* C10: however the steps of concurrent calls interleave, each call ends as
\* it would alone on the store, whatever the other calls ask and wherever
\* they stand.
C10_CallsAreIndependent ==
    \A c \in DOMAIN calls :
        Done(c) =>
            /\ Len(calls[c].outcomes) = 1
            /\ calls[c].outcomes[1] \in AloneOutcomes(calls[c].op, calls[c].userId, calls[c].hotelId)

C10_Witness ==
    \E c, d \in DOMAIN calls :
        /\ c # d
        /\ Done(c) /\ calls[c].outcomes[1].kind = "return"
        /\ calls[d].pc = "ticket"
        /\ calls[d].userId # calls[c].userId
        /\ ~Eligible(calls[d].userId)

====
